---- MODULE Spec2Model ----
(***************************************************************************)
(* A model of lora_viewer (src/src/app.rs, src/src/metadata.rs).           *)
(*                                                                         *)
(* Spec        the presentation thread (App::update) and the background    *)
(*             worker thread (App::new) sharing loader_state, the mpsc     *)
(*             channel and the LazyLock of every metadata record.          *)
(* SpecRecord  the closure of metadata_record on one file: read_header,    *)
(*             then LoraData::from_buffer, over a bounded set of files.    *)
(***************************************************************************)
EXTENDS Integers, Sequences, FiniteSets, TLC

VARIABLES
    \* ---- App (src/src/app.rs:46-62) ----
    lora_file,       \* Option<PathBuf>: NoPath or a path of the file system
    selected,        \* usize
    metadata,        \* Option<MetadataStore>: NoStore or a store
    search_text,     \* String
    search_results,  \* Option<Vec<SearchResult>>: NoResults or a sequence
    loader_state,    \* Arc<Mutex<(usize, usize)>>: <<loaded, total>>
    channel,         \* the mpsc channel of App::new: stores sent, not yet received
    upc,             \* where App::update stands within one frame
    \* ---- the worker thread (src/src/app.rs:81-98) ----
    store,           \* the worker's local `store`
    i,               \* the worker's local `i`
    wpc,             \* the worker's position in its loop
    \* ---- the heap: one LazyLock per record of every store ----
    lazy,            \* lazy[id][k]: record k of store id has been initialised
    nbatches,        \* how many stores have been built so far
    \* ---- history variables (not program state) ----
    classified,      \* <<id, file, who>>: who ran the closure of file in store id
    sentBusy,        \* ids of stores sent while the worker was inside its loop
    stale,           \* ids of sentBusy stores that, still pending with the worker
                     \* inside its loop, got a newer store sent behind them
    superseded,      \* <<id, done>>: the worker was looping over store id, with
                     \* the files `done` of it classified, when a newer store
                     \* was sent
    forced,          \* indices the worker has forced in its current store
    lastPub,         \* the last pair the worker published for its current store
    \* ---- the closure of metadata_record (app.rs:28-34), used by SpecRecord ----
    file,            \* the file at `path`
    rpc,             \* where the closure stands
    header,          \* what read_header returned
    built,           \* what LoraData::from_buffer returned
    record           \* the LoraData the closure returned

loaderVars == <<lora_file, selected, metadata, search_text, search_results,
                loader_state, channel, upc, store, i, wpc, lazy, nbatches,
                classified, sentBusy, stale, superseded, forced, lastPub>>

recVars == <<file, rpc, header, built, record>>

vars == <<loaderVars, recVars>>

appVars == <<lora_file, selected, metadata, search_text, search_results, upc>>
workerVars == <<store, i, wpc, forced, lastPub>>

----------------------------------------------------------------------------
\* Bounds of the model.

\* Number of safetensors files of the file system.
NumFiles == 2
\* Number of stores App::update may build in one run.
MaxBatches == 3

Files == 1..NumFiles
BatchIds == 1..MaxBatches

\* Values of the variables of SpecRecord while the closure has not run.
NoFile == [open |-> "none"]
NoResult == [kind |-> "none"]

----------------------------------------------------------------------------
\* The file system, as App::update sees it.

\* The files of set S in path order (files.sort_by, app.rs:198).
RECURSIVE SortedFiles(_)
SortedFiles(S) ==
    IF S = {} THEN <<>>
    ELSE LET m == CHOOSE x \in S : \A y \in S : x <= y
         IN  <<m>> \o SortedFiles(S \ {m})

\* lora_file = None
NoPath == [kind |-> "none", files |-> <<>>]
\* A path for which is_file() holds.
FilePath(f) == [kind |-> "file", files |-> <<f>>]
\* A path for which is_dir() holds and read_dir succeeds: its safetensors files.
DirPath(S) == [kind |-> "dir", files |-> SortedFiles(S)]
\* A path for which is_dir() holds and read_dir fails.
BadDir == [kind |-> "baddir", files |-> <<>>]
\* A path that is neither a file nor a directory.
Missing == [kind |-> "missing", files |-> <<>>]

Paths == {FilePath(f) : f \in Files} \cup {DirPath(S) : S \in SUBSET Files}
            \cup {BadDir, Missing}

is_file(p) == p.kind = "file"
is_dir(p) == p.kind \in {"dir", "baddir"}

\* metadata = None, and the worker's store before its first recv.
NoStore == [id |-> 0, paths |-> <<>>]
\* search_results = None
NoResults == <<"None">>

\* The strings the search box may hold.
Texts == {"", "b"}

\* name_match (app.rs:233-243): the file name contains the search text. Every
\* name contains the empty text; no file name contains "b".
NameMatch(f, text) == text = ""
\* tag_match (app.rs:244-249): one of the file's tags contains the search text.
\* File 2 has a tag that contains "b"; file 1 has none.
TagMatch(f, text) == f = 2

\* One entry of search_results (app.rs:250-256).
SearchResultOf(f, text) ==
    IF NameMatch(f, text) THEN "Name"
    ELSE IF TagMatch(f, text) THEN "Tag"
    ELSE "NoMatch"

----------------------------------------------------------------------------
\* LazyLock::force on record k of store s by thread who: the closure of
\* metadata_record runs if and only if the record is not initialised yet.

ForceSet(s, K) ==
    IF s.id = 0 THEN {} ELSE {k \in K : k \in 1..Len(s.paths) /\ ~lazy[s.id][k]}

ForceAll(s, K, who) ==
    /\ lazy' = [b \in BatchIds |-> [k \in Files |->
                  lazy[b][k] \/ (b = s.id /\ k \in ForceSet(s, K))]]
    /\ classified' = classified \cup
                       {<<s.id, s.paths[k], who>> : k \in ForceSet(s, K)}

----------------------------------------------------------------------------
\* App::update, one frame: dialog, populate, panel, central, then the next
\* frame. Each step holds at most one access to state shared with the worker.

\* The selection if it left the search results of the old store in place.
SelectPathKeepResults(p) ==
    /\ lora_file' = p
    /\ metadata' = NoStore
    /\ search_results' = search_results
    /\ loader_state' = <<0, 0>>
    /\ selected' = 0

\* app.rs:155-167: the open dialog has finished with path p.
SelectPath(p) ==
    /\ lora_file' = p
    /\ metadata' = NoStore
    /\ search_results' = NoResults
    /\ loader_state' = <<0, 0>>
    /\ selected' = 0

\* app.rs:155-167, one frame's pass over the dialog: a path is selected, or
\* the dialog is closed or still open.
UiDialog ==
    /\ upc = "dialog"
    /\ UNCHANGED recVars
    /\ upc' = "populate"
    /\ \/ /\ nbatches < MaxBatches
          /\ \E p \in Paths : SelectPath(p)
       \/ UNCHANGED <<lora_file, metadata, search_results, loader_state, selected>>
    /\ UNCHANGED <<search_text, channel, nbatches, lazy, classified, sentBusy,
                   stale, superseded, workerVars>>

\* The store App::update builds for path p (app.rs:175, 184-200): one fresh
\* record per file.
NewStore(p) == [id |-> nbatches + 1, paths |-> p.files]

\* loader.send(metadata.clone()) (app.rs:177, 202).
Send(s) == channel' = Append(channel, s)

\* Whether the worker is inside its loop over `store` (not waiting in recv).
InFlight == wpc # "recv"

\* The files of store id classified so far.
DoneFiles(id) == {c[2] : c \in {d \in classified : d[1] = id}}

\* app.rs:171-208: populate the metadata store and hand it to the worker.
UiPopulate ==
    /\ upc = "populate"
    /\ UNCHANGED recVars
    /\ upc' = "panel"
    /\ IF metadata = NoStore /\ lora_file.kind \in {"file", "dir"}
       THEN /\ Send(NewStore(lora_file))
            /\ metadata' = NewStore(lora_file)
            /\ nbatches' = nbatches + 1
            /\ sentBusy' = IF InFlight THEN sentBusy \cup {nbatches + 1}
                            ELSE sentBusy
            /\ stale' = IF InFlight
                         THEN stale \cup ({channel[k].id : k \in 1..Len(channel)}
                                             \cap sentBusy)
                         ELSE stale
            /\ superseded' = IF InFlight
                              THEN superseded \cup {<<store.id, DoneFiles(store.id)>>}
                              ELSE superseded
       ELSE UNCHANGED <<channel, metadata, nbatches, sentBusy, stale, superseded>>
    /\ UNCHANGED <<lora_file, selected, search_text, search_results,
                   loader_state, lazy, classified, workerVars>>

\* app.rs:229-259: search_results computed from store s.
ComputeResults(s, text) ==
    [k \in 1..Len(s.paths) |-> SearchResultOf(s.paths[k], text)]

\* app.rs:270-273: whether the label of index k (0-based) is shown; indexing
\* search_results out of bounds panics.
Shown(res, k) == IF res = NoResults THEN TRUE ELSE res[k + 1] # "NoMatch"
IndexPanics(res, n) == res # NoResults /\ Len(res) < n

\* app.rs:211-291: the side panel of a directory.
UiPanel ==
    /\ upc = "panel"
    /\ UNCHANGED recVars
    /\ IF ~is_dir(lora_file)
       THEN /\ upc' = "central"
            /\ UNCHANGED <<search_text, search_results, selected, lazy, classified>>
       ELSE LET loaded == loader_state[1]
                total == loader_state[2]
            IN  \E text \in Texts :
                \* the text box is shown, and may change, only when not scanning
                /\ (loaded < total) => text = search_text
                /\ search_text' = text
                /\ LET afterEdit == IF text # search_text THEN NoResults
                                    ELSE search_results
                       compute == /\ metadata # NoStore
                                  /\ ~(loaded < total \/ total = 0)
                                  /\ afterEdit = NoResults
                       res == IF metadata = NoStore THEN afterEdit
                              ELSE IF loaded < total \/ total = 0 THEN NoResults
                              ELSE IF afterEdit = NoResults
                                   THEN ComputeResults(metadata, text)
                              ELSE afterEdit
                   IN  /\ search_results' = res
                       /\ IF compute
                          THEN ForceAll(metadata, Files, "ui")
                          ELSE UNCHANGED <<lazy, classified>>
                       /\ IF IndexPanics(res, Len(metadata.paths))
                          THEN /\ upc' = "panicked"
                               /\ UNCHANGED selected
                          ELSE /\ upc' = "central"
                               /\ \/ UNCHANGED selected
                                  \/ \E k \in 0..(Len(metadata.paths) - 1) :
                                        /\ Shown(res, k)
                                        /\ selected' = k
    /\ UNCHANGED <<lora_file, metadata, loader_state, channel, nbatches, sentBusy,
                   stale, superseded, workerVars>>

\* app.rs:295-425: the central panel reads the selected record, if it exists.
UiCentral ==
    /\ upc = "central"
    /\ UNCHANGED recVars
    /\ upc' = "dialog"
    /\ IF selected < Len(metadata.paths)
       THEN ForceAll(metadata, {selected + 1}, "ui")
       ELSE UNCHANGED <<lazy, classified>>
    /\ UNCHANGED <<lora_file, selected, metadata, search_text, search_results,
                   loader_state, channel, nbatches, sentBusy, stale, superseded,
                   workerVars>>

----------------------------------------------------------------------------
\* The background worker (app.rs:81-98).

\* The worker takes store s as its own and starts at its first record.
Adopt(s) ==
    /\ store' = s
    /\ i' = 0
    /\ forced' = <<>>
    /\ lastPub' = <<0, 0>>
    /\ channel' = Tail(channel)

\* After a loop test `i < store.len()` with index n on a store of len records.
AfterTest(n, len) == IF n < len THEN "force" ELSE "recv"

\* app.rs:82-84: recv() blocks until a store is sent.
WorkerRecv ==
    /\ wpc = "recv"
    /\ UNCHANGED recVars
    /\ channel # <<>>
    /\ Adopt(Head(channel))
    /\ wpc' = AfterTest(0, Len(Head(channel).paths))
    /\ UNCHANGED <<appVars, loader_state, lazy, nbatches, classified, sentBusy,
                   stale, superseded>>

\* app.rs:85-86: LazyLock::force(&store[i].1); i += 1.
NextIndex(n) == n + 1

WorkerForce ==
    /\ wpc = "force"
    /\ UNCHANGED recVars
    /\ ForceAll(store, {i + 1}, "worker")
    /\ forced' = Append(forced, i)
    /\ i' = NextIndex(i)
    /\ wpc' = "publish"
    /\ UNCHANGED <<appVars, loader_state, channel, nbatches, sentBusy, stale,
                   superseded, store, lastPub>>

\* The pair published if the counter were written before `i += 1`.
ProgressBeforeIncrement(n, s) == <<n - 1, Len(s.paths)>>

\* app.rs:87: *state.lock().unwrap() = (i, store.len()).
Progress(n, s) == <<n, Len(s.paths)>>

WorkerPublish ==
    /\ wpc = "publish"
    /\ UNCHANGED recVars
    /\ loader_state' = Progress(i, store)
    /\ lastPub' = Progress(i, store)
    /\ wpc' = "tryrecv"
    /\ UNCHANGED <<appVars, channel, lazy, nbatches, classified, sentBusy,
                   stale, superseded, store, i, forced>>

\* app.rs:89-96: try_recv() takes the oldest store of the channel, if any.
WorkerTryRecv ==
    /\ wpc = "tryrecv"
    /\ UNCHANGED recVars
    /\ IF channel # <<>>
       THEN /\ Adopt(Head(channel))
            /\ wpc' = AfterTest(0, Len(Head(channel).paths))
       ELSE /\ wpc' = AfterTest(i, Len(store.paths))
            /\ UNCHANGED <<store, i, forced, lastPub, channel>>
    /\ UNCHANGED <<appVars, loader_state, lazy, nbatches, classified, sentBusy,
                   stale, superseded>>

----------------------------------------------------------------------------
\* App::new (app.rs:65-100): the path comes from the command line or from the
\* saved state, as do selected and search_text; everything else is default.
Init ==
    /\ lora_file \in Paths \cup {NoPath}
    /\ selected \in 0..NumFiles
    /\ search_text \in Texts
    /\ metadata = NoStore
    /\ search_results = NoResults
    /\ loader_state = <<0, 0>>
    /\ channel = <<>>
    /\ upc = "dialog"
    /\ store = NoStore
    /\ i = 0
    /\ wpc = "recv"
    /\ lazy = [b \in BatchIds |-> [k \in Files |-> FALSE]]
    /\ nbatches = 0
    /\ classified = {}
    /\ sentBusy = {}
    /\ stale = {}
    /\ superseded = {}
    /\ forced = <<>>
    /\ lastPub = <<0, 0>>
    /\ file = NoFile
    /\ rpc = "idle"
    /\ header = NoResult
    /\ built = NoResult
    /\ record = NoResult

Next ==
    \/ UiDialog
    \/ UiPopulate
    \/ UiPanel
    \/ UiCentral
    \/ WorkerRecv
    \/ WorkerForce
    \/ WorkerPublish
    \/ WorkerTryRecv

Spec == Init /\ [][Next]_vars

----------------------------------------------------------------------------
\* read_header (metadata.rs:148-164). A file is its bytes; usize and u64 are
\* 64 bits wide and are kept as four little-endian limbs of 16 bits.

\* Largest payload (bytes after the 8-byte length prefix) of a sampled file.
MaxPayload == 3
\* Largest small header length a sampled length prefix declares.
MaxHeader == 3

LimbBase == 65536
Limbs == 1..4

\* u64::from_le_bytes (metadata.rs:154) of the 8 bytes b.
from_le_bytes(b) == [k \in Limbs |-> b[2 * k - 1] + 256 * b[2 * k]]

\* The limbs of n, for 0 <= n < 2^31.
ToLimbs(n) == [k \in Limbs |-> IF k = 1 THEN n % LimbBase
                               ELSE IF k = 2 THEN n \div LimbBase
                               ELSE 0]

\* The number of limbs x, for x < 2^31.
ToNat(x) == x[1] + LimbBase * x[2]

\* x < y on limbs.
RECURSIVE LessFrom(_, _, _)
LessFrom(x, y, k) ==
    IF k = 0 THEN FALSE
    ELSE IF x[k] # y[k] THEN x[k] < y[k]
    ELSE LessFrom(x, y, k - 1)
Less(x, y) == LessFrom(x, y, 4)

\* x + n on limbs, for 0 <= n < 2^16: the wrapped sum and the carry out.
AddSmall(x, n) ==
    LET s1 == x[1] + n
        s2 == x[2] + (s1 \div LimbBase)
        s3 == x[3] + (s2 \div LimbBase)
        s4 == x[4] + (s3 \div LimbBase)
    IN  [sum |-> <<s1 % LimbBase, s2 % LimbBase, s3 % LimbBase, s4 % LimbBase>>,
         carry |-> s4 \div LimbBase]

\* size.checked_add(8) (metadata.rs:155): None on overflow.
checked_add(x, n) ==
    LET r == AddSmall(x, n)
    IN  IF r.carry = 0 THEN [some |-> TRUE, v |-> r.sum]
        ELSE [some |-> FALSE, v |-> r.sum]

\* 100 * 1048576 (metadata.rs:156).
HeaderLimit == 100 * 1048576

\* The size check if it let the bound itself through.
SizeAllowedInclusive(size) == ~Less(ToLimbs(HeaderLimit), size)

\* ensure!(size < 100 * 1048576) (metadata.rs:156).
SizeAllowed(size) == Less(size, ToLimbs(HeaderLimit))

\* Results of read_header: Ok(buffer) or Err(err).
Ok(buffer) == [kind |-> "ok", err |-> "", buffer |-> buffer]
Err(err) == [kind |-> "err", err |-> err, buffer |-> <<>>]

\* n zero bytes.
Zeros(n) == [k \in 1..n |-> 0]

\* buffer.resize(new_len, 0) (metadata.rs:159, 162).
resize(buffer, new_len) ==
    IF new_len <= Len(buffer) THEN SubSeq(buffer, 1, new_len)
    ELSE buffer \o Zeros(new_len - Len(buffer))

\* The second resize if it cut the buffer to the header instead of padding it.
FillHeaderOnly(bytes, size) == SubSeq(bytes, 1, size)

\* metadata.rs:158-163: the buffer of a file of bytes `bytes` whose first
\* `size` bytes exist: they are read into it, and it is padded to the file size.
FillBuffer(bytes, size) ==
    resize(SubSeq(bytes, 1, size), Len(bytes))

\* read_header(path) on file f (metadata.rs:148-164).
ReadHeader(f) ==
    IF f.open # "ok" THEN Err(f.open)                          \* File::open
    ELSE IF Len(f.bytes) < 8 THEN Err("UnexpectedEof")         \* read_exact
    ELSE LET size == checked_add(from_le_bytes(SubSeq(f.bytes, 1, 8)), 8)
         IN  IF ~size.some THEN Err("InvalidHeaderSize")
             ELSE IF ~SizeAllowed(size.v) THEN Err("HeaderTooLarge")
             ELSE IF Len(f.bytes) < ToNat(size.v) THEN Err("UnexpectedEof")
             ELSE Ok(FillBuffer(f.bytes, ToNat(size.v)))

\* The 8-byte little-endian prefix of header length n, for 0 <= n < 2^31.
LePrefix(n) ==
    <<n % 256, (n \div 256) % 256, (n \div 65536) % 256, n \div 16777216,
      0, 0, 0, 0>>

\* The length prefixes sampled: small header lengths, the lengths around the
\* size bound, 2^32, and the lengths around the overflow of H + 8.
Prefixes ==
    {LePrefix(n) : n \in 0..MaxHeader}
    \cup {LePrefix(HeaderLimit - 8 + d) : d \in {-1, 0, 1}}
    \cup {<<0, 0, 0, 0, 1, 0, 0, 0>>}
    \cup {<<b, 255, 255, 255, 255, 255, 255, 255>> : b \in {247, 248, 255}}

\* The bytes after the prefix: the JSON header and the tensor data.
PayloadBytes == {0, 7}
Payloads == UNION {[1..n -> PayloadBytes] : n \in 0..MaxPayload}

\* The byte contents sampled, files shorter than the prefix among them.
ByteFiles ==
    {p \o q : p \in Prefixes, q \in Payloads} \cup {<<>>, <<1, 0, 0>>}

----------------------------------------------------------------------------
\* The header's metadata table and tag_frequencies (metadata.rs:221-244).
\* The string stored under a key is kept as what tinyjson's parse makes of it:
\* Malformed (parse fails) or a JsonValue.

\* Number of group labels (outer keys) a sampled tag-frequency value may use.
NumGroups == 2

Groups == 1..NumGroups
Tags == {"x", "y"}
Weights == {1, 2}

\* JsonValue::Number, JsonValue::String, JsonValue::Object, and a string that
\* is not JSON.
JNumber(n) == [t |-> "Number", n |-> n, m |-> <<>>]
JString == [t |-> "String", n |-> 0, m |-> <<>>]
JObject(m) == [t |-> "Object", n |-> 0, m |-> m]
Malformed == [t |-> "Malformed", n |-> 0, m |-> <<>>]

\* All functions from a subset of keys K to values V: the objects over K.
ObjectsOver(K, V) == UNION {[S -> V] : S \in SUBSET K}

\* The members a group may hold: numbers, and a value that is not a number.
InnerValues == {JNumber(w) : w \in Weights} \cup {JString}
\* The members the outer object may hold: groups, and values that are no object.
OuterValues ==
    {JObject(m) : m \in ObjectsOver(Tags, InnerValues)} \cup {JNumber(1), JString}
\* The strings sampled for ss_tag_frequency.
TagTexts ==
    {JObject(m) : m \in ObjectsOver(Groups, OuterValues)}
        \cup {Malformed, JNumber(1), JString}

\* Outcomes of tag_frequencies: Ok(tags), Err, or a panic.
TagsOk(tags) == [kind |-> "ok", tags |-> tags]
TagsErr == [kind |-> "err", tags |-> <<>>]
TagsPanic == [kind |-> "panic", tags |-> <<>>]

\* The running sums if a later group replaced an earlier group's weight.
AccumulateOverwrite(all_tags, tag, w) ==
    [t \in DOMAIN all_tags \cup {tag} |-> IF t = tag THEN w ELSE all_tags[t]]

\* all_tags.entry(tag).and_modify(|v| *v += w).or_insert(w) (metadata.rs:235-238).
Accumulate(all_tags, tag, w) ==
    [t \in DOMAIN all_tags \cup {tag} |->
        IF t # tag THEN all_tags[t]
        ELSE IF tag \in DOMAIN all_tags THEN all_tags[tag] + w
        ELSE w]

\* metadata.rs:234-239: the tags `left` of one group, in some order.
RECURSIVE AddTags(_, _, _)
AddTags(all_tags, tags, left) ==
    IF left = {} THEN all_tags
    ELSE LET tag == CHOOSE t \in left : TRUE
         IN  AddTags(Accumulate(all_tags, tag, tags[tag].n), tags, left \ {tag})

\* metadata.rs:230-240: the groups `left`, in some order.
RECURSIVE AddDirs(_, _, _)
AddDirs(all_tags, dirs, left) ==
    IF left = {} THEN all_tags
    ELSE LET dir == CHOOSE d \in left : TRUE
         IN  AddDirs(AddTags(all_tags, dirs[dir].m, DOMAIN dirs[dir].m),
                     dirs, left \ {dir})

\* The comparator if it sorted by ascending weight.
InOrderAscending(a, b) == a[2] <= b[2]

\* all_tags.sort_by(|a, b| b.1.partial_cmp(&a.1).unwrap()) (metadata.rs:242):
\* whether entry a may stand before entry b in the sorted vector.
InOrder(a, b) == a[2] >= b[2]

\* metadata.rs:241-243: the vectors the sort may return for the map all_tags.
\* The map is iterated in an arbitrary order and the sort is stable, so every
\* ordering of entries of equal weight can come out.
SortedVectors(all_tags) ==
    LET entries == {<<t, all_tags[t]>> : t \in DOMAIN all_tags}
        n == Cardinality(entries)
    IN  {v \in [1..n -> entries] :
            /\ \A j, k \in 1..n : j # k => v[j] # v[k]
            /\ \A j \in 1..(n - 1) : InOrder(v[j], v[j + 1])}

\* A group that is no object: bail!("Unexpected json structure") (metadata.rs:231-233).
BailDirs(dirs) == {d \in DOMAIN dirs : dirs[d].t # "Object"}
\* A group with a member that is no number: get::<f64>().unwrap() panics
\* (metadata.rs:237-238).
PanicDirs(dirs) ==
    {d \in DOMAIN dirs :
        /\ dirs[d].t = "Object"
        /\ \E tag \in DOMAIN dirs[d].m : dirs[d].m[tag].t # "Number"}

\* tag_frequencies(metadata) (metadata.rs:221-244): the outcomes it may have.
\* The groups are iterated in an arbitrary order (HashMap), so the first group
\* that stops the loop may be any of those that can.
tag_frequencies(table) ==
    IF "ss_tag_frequency" \notin DOMAIN table THEN {TagsErr}       \* ok_or(..)?
    ELSE LET frequencies == table["ss_tag_frequency"]
         IN  IF frequencies.t = "Malformed" THEN {TagsPanic}       \* parse().unwrap()
             ELSE IF frequencies.t # "Object" THEN {TagsErr}       \* bail!
             ELSE LET dirs == frequencies.m
                  IN  IF BailDirs(dirs) \cup PanicDirs(dirs) = {}
                      THEN {TagsOk(v) :
                              v \in SortedVectors(AddDirs(<<>>, dirs, DOMAIN dirs))}
                      ELSE {TagsErr : d \in BailDirs(dirs)}
                              \cup {TagsPanic : d \in PanicDirs(dirs)}

----------------------------------------------------------------------------
\* ModelType::from_tensor_name (metadata.rs:65-113). A tensor name is the
\* sequence of its characters.

\* "conditioner.embedders.0." (metadata.rs:67)
P_conditioner ==
    <<"c", "o", "n", "d", "i", "t", "i", "o", "n", "e", "r", ".", "e", "m",
      "b", "e", "d", "d", "e", "r", "s", ".", "0", ".">>
\* "cond_stage_model." (metadata.rs:70)
P_cond_stage ==
    <<"c", "o", "n", "d", "_", "s", "t", "a", "g", "e", "_", "m", "o", "d",
      "e", "l", ".">>
\* "encoder." (metadata.rs:75)
P_encoder ==
    <<"e", "n", "c", "o", "d", "e", "r", ".">>
\* "first_stage_model." (metadata.rs:78)
P_first_stage ==
    <<"f", "i", "r", "s", "t", "_", "s", "t", "a", "g", "e", "_", "m", "o",
      "d", "e", "l", ".">>
\* "lora_te_" (metadata.rs:83)
P_lora_te ==
    <<"l", "o", "r", "a", "_", "t", "e", "_">>
\* "lora_te1_" (metadata.rs:85)
P_lora_te1 ==
    <<"l", "o", "r", "a", "_", "t", "e", "1", "_">>
\* "transformer." (metadata.rs:87)
P_transformer ==
    <<"t", "r", "a", "n", "s", "f", "o", "r", "m", "e", "r", ".">>
\* "lora_unet_" (metadata.rs:89)
P_lora_unet ==
    <<"l", "o", "r", "a", "_", "u", "n", "e", "t", "_">>
\* "lora_down.weight" (metadata.rs:96)
S_lora_down ==
    <<"l", "o", "r", "a", "_", "d", "o", "w", "n", ".", "w", "e", "i", "g",
      "h", "t">>
\* "lora_up.weight" (metadata.rs:97)
S_lora_up ==
    <<"l", "o", "r", "a", "_", "u", "p", ".", "w", "e", "i", "g", "h", "t">>
\* "lora_A.weight" (metadata.rs:98)
S_lora_A ==
    <<"l", "o", "r", "a", "_", "A", ".", "w", "e", "i", "g", "h", "t">>
\* "lora_B.weight" (metadata.rs:99)
S_lora_B ==
    <<"l", "o", "r", "a", "_", "B", ".", "w", "e", "i", "g", "h", "t">>
\* "hada_w1_a" (metadata.rs:102)
S_hada ==
    <<"h", "a", "d", "a", "_", "w", "1", "_", "a">>
\* "lokr_w1" (metadata.rs:104)
S_lokr ==
    <<"l", "o", "k", "r", "_", "w", "1">>
\* "dora_scale" (metadata.rs:106)
S_dora ==
    <<"d", "o", "r", "a", "_", "s", "c", "a", "l", "e">>
\* "lora_te2_": a prefix no rule knows
P_lora_te2 ==
    <<"l", "o", "r", "a", "_", "t", "e", "2", "_">>
\* "model.": a prefix no rule knows
P_model ==
    <<"m", "o", "d", "e", "l", ".">>
\* "alpha": a suffix no rule knows
S_alpha ==
    <<"a", "l", "p", "h", "a">>
\* "weight": a suffix no rule knows
S_weight ==
    <<"w", "e", "i", "g", "h", "t">>
\* "q.": the middle of every sampled name
Mid ==
    <<"q", ".">>

\* str::starts_with and str::ends_with.
starts_with(name, p) == Len(p) <= Len(name) /\ SubSeq(name, 1, Len(p)) = p
ends_with(name, q) ==
    Len(q) <= Len(name) /\ SubSeq(name, Len(name) - Len(q) + 1, Len(name)) = q

\* Option<ModelType> and the ModelType values.
NoType == [some |-> FALSE, kind |-> "-", lora |-> "-", net |-> "-"]
Checkpoint(kind) == [some |-> TRUE, kind |-> kind, lora |-> "-", net |-> "-"]
Lora(lora, net) == [some |-> TRUE, kind |-> "Lora", lora |-> lora, net |-> net]

\* metadata.rs:83-93: the network an adapter tensor belongs to, "-" for none.
NetworkOf(name) ==
    IF starts_with(name, P_lora_te) THEN "SdClip"
    ELSE IF starts_with(name, P_lora_te1) THEN "SdxlClip"
    ELSE IF starts_with(name, P_transformer) THEN "Transformer"
    ELSE IF starts_with(name, P_lora_unet) THEN "Unet"
    ELSE "-"

\* metadata.rs:96-110: the adapter technique of a tensor, "-" for none.
LoraTypeOf(name) ==
    IF \/ ends_with(name, S_lora_down)
       \/ ends_with(name, S_lora_up)
       \/ ends_with(name, S_lora_A)
       \/ ends_with(name, S_lora_B)
    THEN "LoRA"
    ELSE IF ends_with(name, S_hada) THEN "LoHa"
    ELSE IF ends_with(name, S_lokr) THEN "LoKr"
    ELSE IF ends_with(name, S_dora) THEN "DoRA"
    ELSE "-"

\* The classifier if a technique suffix decided before any prefix was looked at.
SuffixFirst(name) ==
    IF LoraTypeOf(name) # "-" THEN Lora(LoraTypeOf(name), "Unet")
    ELSE IF starts_with(name, P_conditioner) THEN Checkpoint("SdxlCheckpoint")
    ELSE NoType

\* ModelType::from_tensor_name(name, _shape) (metadata.rs:65-113).
from_tensor_name(name) ==
    IF starts_with(name, P_conditioner) THEN Checkpoint("SdxlCheckpoint")
    ELSE IF starts_with(name, P_cond_stage) THEN Checkpoint("SdCheckpoint")
    ELSE IF starts_with(name, P_encoder) THEN Checkpoint("StandaloneVae")
    ELSE IF starts_with(name, P_first_stage) THEN Checkpoint("BakedVae")
    ELSE IF NetworkOf(name) = "-" THEN NoType
    ELSE IF LoraTypeOf(name) = "-" THEN NoType
    ELSE Lora(LoraTypeOf(name), NetworkOf(name))

\* The derived Ord of ModelType, LoraType and NetworkType (metadata.rs:12-59):
\* the rank of a value in the order of the variants.
KindRank(k) ==
    CASE k = "SdCheckpoint" -> 0 [] k = "SdxlCheckpoint" -> 1 [] k = "Lora" -> 2
      [] k = "BakedVae" -> 3 [] k = "StandaloneVae" -> 4
LoraRank(l) ==
    CASE l = "-" -> 0 [] l = "LoRA" -> 0 [] l = "DoRA" -> 1 [] l = "LoHa" -> 2
      [] l = "LoKr" -> 3
NetRank(n) ==
    CASE n = "-" -> 0 [] n = "Unet" -> 0 [] n = "SdClip" -> 1 [] n = "SdxlClip" -> 2
      [] n = "Transformer" -> 3
TypeRank(t) == 16 * KindRank(t.kind) + 4 * LoraRank(t.lora) + NetRank(t.net)

\* model_types.sort() (metadata.rs:203-204).
RECURSIVE SortTypes(_)
SortTypes(S) ==
    IF S = {} THEN <<>>
    ELSE LET m == CHOOSE t \in S : \A u \in S : TypeRank(t) <= TypeRank(u)
         IN  <<m>> \o SortTypes(S \ {m})

\* The conflict resolution if it removed nothing.
KeepAll(types) == types

\* metadata.rs:191-202: for every DoRA tag, the LoRA tag of the same network
\* is removed.
RemoveSuperseded(types) ==
    LET dora_types == {t.net : t \in {u \in types : u.kind = "Lora" /\ u.lora = "DoRA"}}
    IN  types \ {Lora("LoRA", n) : n \in dora_types}

\* The order of the characters used in tensor names (their byte values).
Alphabet ==
    <<".", "0", "1", "2", "A", "B", "_", "a", "b", "c", "d", "e", "f", "g", "h",
      "i", "j", "k", "l", "m", "n", "o", "p", "q", "r", "s", "t", "u", "v", "w",
      "x", "y", "z">>
Ord(c) == CHOOSE k \in 1..Len(Alphabet) : Alphabet[k] = c

\* a < b for strings: the order names.sort() uses (metadata.rs:179).
RECURSIVE NameLess(_, _)
NameLess(a, b) ==
    IF b = <<>> THEN FALSE
    ELSE IF a = <<>> THEN TRUE
    ELSE IF Head(a) # Head(b) THEN Ord(Head(a)) < Ord(Head(b))
    ELSE NameLess(Tail(a), Tail(b))

\* names.sort() (metadata.rs:178-179).
RECURSIVE SortNames(_)
SortNames(S) ==
    IF S = {} THEN <<>>
    ELSE LET m == CHOOSE a \in S : \A b \in S \ {a} : NameLess(a, b)
         IN  <<m>> \o SortNames(S \ {m})

----------------------------------------------------------------------------
\* LoraData::from_buffer (metadata.rs:167-218) and metadata_record
\* (app.rs:24-36). What the safetensors crate makes of a buffer is the file's
\* `container`: whether read_metadata accepts it, its metadata table (if any),
\* whether deserialize accepts it, its tensors, and whether tensor(name) finds
\* each of them.

\* Largest number of tensors of a sampled container.
MaxTensors == 2

\* Option<String>
None == [some |-> FALSE, v |-> ""]
Some(v) == [some |-> TRUE, v |-> v]

\* LoraData::default() (metadata.rs:127).
DefaultData ==
    [raw_metadata |-> <<>>, tag_frequencies |-> <<>>, base_model |-> None,
     tensors |-> <<>>, model_types |-> <<>>]

\* Results of from_buffer: Ok(data), Err, or a panic inside it.
BuiltOk(data) == [kind |-> "ok", data |-> data]
BuiltErr == [kind |-> "err", data |-> DefaultData]
BuiltPanic == [kind |-> "panic", data |-> DefaultData]

\* metadata.rs:168-173: the metadata table, empty when the header has none.
MetadataOf(c) == IF c.hasTable THEN c.table ELSE <<>>

\* tag_frequencies(&metadata).ok().unwrap_or_default() (metadata.rs:175).
AbsorbTags(tf) == IF tf.kind = "ok" THEN tf.tags ELSE <<>>

\* metadata.rs:178-184: the catalog, sorted by name; empty if a lookup fails.
TensorsOf(c) ==
    IF ~c.lookup THEN <<>>
    ELSE LET names == SortNames({t[1] : t \in c.tensors})
         IN  [k \in 1..Len(names) |->
                CHOOSE t \in c.tensors : t[1] = names[k]]

\* metadata.rs:186-204: the tags of the catalog, after conflict resolution,
\* sorted.
ModelTypesOf(tensors) ==
    LET found == {from_tensor_name(tensors[k][1]) : k \in 1..Len(tensors)}
    IN  SortTypes(RemoveSuperseded({t \in found : t.some}))

\* metadata.rs:212-214.
BaseModelOf(table) ==
    IF "ss_sd_model_name" \in DOMAIN table THEN Some(table["ss_sd_model_name"])
    ELSE None

\* metadata.rs:206-217: the record assembled from the parts.
Assemble(table, all_tags, tensors) ==
    [raw_metadata |-> table, tag_frequencies |-> all_tags,
     base_model |-> BaseModelOf(table), tensors |-> tensors,
     model_types |-> ModelTypesOf(tensors)]

\* LoraData::from_buffer(buffer) (metadata.rs:167-218) on a buffer the crate
\* reads as container c: the results it may have.
from_buffer(c) ==
    IF c.header # "ok" THEN {BuiltErr}                  \* read_metadata(buffer)?
    ELSE UNION {
           IF tf.kind = "panic" THEN {BuiltPanic}
           ELSE IF ~c.deserialize THEN {BuiltErr}       \* deserialize(buffer)?
           ELSE {BuiltOk(Assemble(MetadataOf(c), AbsorbTags(tf), TensorsOf(c)))}
           : tf \in tag_frequencies(MetadataOf(c))}

\* The closure's answer to a failed read if it kept the error.
KeepReadError(h) == [kind |-> "unreadable", data |-> DefaultData]

\* app.rs:31-33: read_header failed: Default::default().
OnReadError(h) == [kind |-> "data", data |-> DefaultData]

\* app.rs:30: LoraData::from_buffer(&buffer).unwrap_or_default().
unwrap_or_default(b) ==
    [kind |-> "data", data |-> IF b.kind = "ok" THEN b.data ELSE DefaultData]

----------------------------------------------------------------------------
\* The files sampled for SpecRecord.

Shape == <<4, 4>>
Tensor(name) == <<name, Shape>>

\* The tensor names sampled: every prefix with three suffixes, and two adapter
\* prefixes with every suffix.
AllPrefixes ==
    {P_conditioner, P_cond_stage, P_encoder, P_first_stage, P_lora_te,
     P_lora_te1, P_transformer, P_lora_unet, P_lora_te2, P_model}
AllSuffixes ==
    {S_lora_down, S_lora_up, S_lora_A, S_lora_B, S_hada, S_lokr, S_dora,
     S_alpha, S_weight}
NamePool ==
    {p \o Mid \o q : p \in AllPrefixes, q \in {S_lora_down, S_dora, S_alpha}}
        \cup {p \o Mid \o q : p \in {P_lora_unet, P_lora_te}, q \in AllSuffixes}

\* The subsets of S of at most n elements.
RECURSIVE SubsetsUpTo(_, _)
SubsetsUpTo(S, n) ==
    IF n = 0 THEN {{}}
    ELSE LET smaller == SubsetsUpTo(S, n - 1)
         IN  smaller \cup {A \cup {x} : A \in smaller, x \in S}

TensorSets == {{Tensor(n) : n \in N} : N \in SubsetsUpTo(NamePool, MaxTensors)}
FewTensorSets == {{}, {Tensor(P_lora_unet \o Mid \o S_lora_down)}}

\* A DoRA adapter on the UNet together with a plain LoRA on the text encoder.
MixedTensors ==
    {Tensor(P_lora_unet \o Mid \o S_dora),
     Tensor(P_lora_unet \o Mid \o S_lora_down),
     Tensor(P_lora_te \o Mid \o S_lora_down)}

\* The metadata tables sampled: ss_tag_frequency absent or one of TagTexts,
\* ss_sd_model_name absent or present, and one key the viewer does not know.
Table(tag, name) ==
    [k \in {"ss_network_dim"}
            \cup (IF tag = <<>> THEN {} ELSE {"ss_tag_frequency"})
            \cup (IF name = "" THEN {} ELSE {"ss_sd_model_name"}) |->
        IF k = "ss_tag_frequency" THEN tag[1]
        ELSE IF k = "ss_sd_model_name" THEN name
        ELSE "32"]
Tables ==
    {Table(tag, name) : tag \in {<<>>} \cup {<<x>> : x \in TagTexts},
                        name \in {"", "foo.safetensors"}}
PlainTable == Table(<<JObject(<<JObject([x |-> JNumber(1)])>>)>>, "foo.safetensors")

Container(hdr, hasTable, table, deserialize, lookup, tensors) ==
    [header |-> hdr, hasTable |-> hasTable, table |-> table,
     deserialize |-> deserialize, lookup |-> lookup, tensors |-> tensors]

\* deserialize and tensor(name): both succeed, the lookup fails, deserialize fails.
Flags == {<<TRUE, TRUE>>, <<TRUE, FALSE>>, <<FALSE, TRUE>>}

FewTables ==
    {Table(tag, "foo.safetensors") :
        tag \in {<<>>, <<Malformed>>, <<JString>>,
                 <<JObject(<<JObject([x |-> JNumber(1)])>>)>>}}

Containers ==
    {Container("invalid", FALSE, <<>>, FALSE, FALSE, {})}
    \cup {Container("ok", FALSE, <<>>, f[1], f[2], ts) :
            f \in Flags, ts \in FewTensorSets}
    \cup {Container("ok", TRUE, t, TRUE, TRUE, {}) : t \in Tables}
    \cup {Container("ok", TRUE, t, f[1], f[2], ts) :
            t \in FewTables, f \in Flags, ts \in FewTensorSets}
    \cup {Container("ok", TRUE, PlainTable, TRUE, TRUE, ts) :
            ts \in TensorSets \cup {MixedTensors}}
PlainContainer ==
    Container("ok", TRUE, PlainTable, TRUE, TRUE,
              {Tensor(P_lora_unet \o Mid \o S_lora_down)})

\* A file whose header read_header reads.
GoodBytes == LePrefix(2) \o <<7, 7, 7>>

SampleFile(open, bytes, container) ==
    [open |-> open, bytes |-> bytes, container |-> container]

SampleFiles ==
    {SampleFile("ok", b, PlainContainer) : b \in ByteFiles}
    \cup {SampleFile(o, GoodBytes, PlainContainer) :
            o \in {"NotFound", "PermissionDenied"}}
    \cup {SampleFile("ok", GoodBytes, c) : c \in Containers}

----------------------------------------------------------------------------
\* SpecRecord: the closure of metadata_record (app.rs:28-34) on one file.

\* app.rs:29: read_header(&path).
RecRead ==
    /\ rpc = "start"
    /\ header' = ReadHeader(file)
    /\ rpc' = "read"
    /\ UNCHANGED <<file, built, record, loaderVars>>

\* app.rs:30: the read succeeded; from_buffer on the buffer, unwrap_or_default.
\* A panic inside from_buffer leaves the closure without a result.
RecBuild ==
    /\ rpc = "read"
    /\ header.kind = "ok"
    /\ \E b \in from_buffer(file.container) :
          /\ built' = b
          /\ IF b.kind = "panic"
             THEN /\ rpc' = "panicked"
                  /\ UNCHANGED record
             ELSE /\ rpc' = "done"
                  /\ record' = unwrap_or_default(b)
    /\ UNCHANGED <<file, header, loaderVars>>

\* app.rs:31-33: the read failed.
RecDefault ==
    /\ rpc = "read"
    /\ header.kind = "err"
    /\ record' = OnReadError(header)
    /\ rpc' = "done"
    /\ UNCHANGED <<file, header, built, loaderVars>>

InitRecord ==
    /\ lora_file = NoPath
    /\ selected = 0
    /\ search_text = ""
    /\ metadata = NoStore
    /\ search_results = NoResults
    /\ loader_state = <<0, 0>>
    /\ channel = <<>>
    /\ upc = "dialog"
    /\ store = NoStore
    /\ i = 0
    /\ wpc = "recv"
    /\ lazy = [b \in BatchIds |-> [k \in Files |-> FALSE]]
    /\ nbatches = 0
    /\ classified = {}
    /\ sentBusy = {}
    /\ stale = {}
    /\ superseded = {}
    /\ forced = <<>>
    /\ lastPub = <<0, 0>>
    /\ file \in SampleFiles
    /\ rpc = "start"
    /\ header = NoResult
    /\ built = NoResult
    /\ record = NoResult

NextRecord ==
    \/ RecRead
    \/ RecBuild
    \/ RecDefault

SpecRecord == InitRecord /\ [][NextRecord]_vars

----------------------------------------------------------------------------
\* Claims about the worker and the progress counter, checked under Spec.

SupersededIds == {s[1] : s \in superseded}

\* C1: after the caller has reset the counter and submitted store B (now
\* `metadata`) while the worker was looping over store A, the total of the
\* progress counter is 0 or len(B), both while the worker still holds A with B
\* the only pending store and after it has switched from A to B: the counter
\* is never written with a pair computed from A.
C1_TotalIsOfNewestBatch ==
    (/\ metadata # NoStore
     /\ \/ store.id \in SupersededIds /\ channel = <<metadata>>
        \/ store = metadata /\ (store.id - 1) \in SupersededIds)
    => loader_state[2] \in {0, Len(metadata.paths)}

\* C2: the worker never classifies a file of a store that, while pending
\* behind a busy worker, got a newer store submitted behind it.
C2_NoStaleBatchClassified ==
    \A c \in classified : c[3] = "worker" => c[1] \notin stale

\* C3: the worker has forced exactly the indices 0, 1, ..., i-1 of its store,
\* in this order, and whenever it is about to start the next file (or has left
\* the loop) after i >= 1 files the last pair it published is (i, n).
C3_InOrderWithProgress ==
    /\ forced = [k \in 1..i |-> k - 1]
    /\ i <= Len(store.paths)
    /\ (wpc # "publish" /\ i > 0) => lastPub = <<i, Len(store.paths)>>
    /\ (wpc = "publish" /\ i > 1) => lastPub = <<i - 1, Len(store.paths)>>

\* C3, witness: in a store of two files the worker has finished the first,
\* published (1, 2) and is about to force the second.
C3_Witness ==
    /\ wpc = "force"
    /\ Len(store.paths) = 2
    /\ forced = <<0>>
    /\ lastPub = <<1, 2>>
    /\ loader_state = <<1, 2>>

\* C4: a file that was already classified in a store when that store was
\* superseded (the worker looping over it) is not classified again in a later
\* store.
C4_NoReclassification ==
    \A s \in superseded : \A d \in classified :
        d[1] > s[1] => d[2] \notin s[2]

----------------------------------------------------------------------------
\* Claims about metadata_record, read_header and from_buffer, checked under
\* SpecRecord.

\* The closure has read a file that exists and holds the 8-byte prefix.
HeaderWasRead == rpc # "start" /\ file.open = "ok" /\ Len(file.bytes) >= 8

\* The crate accepts the buffer: read_metadata and deserialize both succeed.
Validated ==
    header.kind = "ok" /\ file.container.header = "ok" /\ file.container.deserialize

\* The record a finished closure holds, as the presentation layer sees it.
EmptyRecord == [kind |-> "data", data |-> DefaultData]

\* C5: when read_header fails (file not found, I/O error, header size
\* overflowing or reaching the bound), the record the closure returns differs
\* from the default empty record.
C5_HardFailureDistinguishable ==
    (rpc = "done" /\ header.kind = "err") => record # EmptyRecord

\* C5, amended: read_header returns the hard failure to metadata_record as an
\* error without a buffer, and metadata_record replaces it by the default
\* empty record: the presentation layer gets the same record as for a buffer
\* that fails validation.
C5_HardFailureBecomesDefault ==
    /\ (rpc # "start" /\ file.open # "ok") =>
            header.kind = "err" /\ header.err = file.open /\ header.buffer = <<>>
    /\ (rpc = "done" /\ header.kind = "err") => record = EmptyRecord
    /\ (rpc = "done" /\ header.kind = "ok" /\ file.container.header = "invalid")
            => record = EmptyRecord

\* C5, witness: a file that cannot be opened has been turned into the default
\* record.
C5_Witness ==
    /\ rpc = "done"
    /\ file.open = "NotFound"
    /\ header.err = "NotFound"
    /\ record = EmptyRecord

\* The value under ss_tag_frequency is an object of objects of numbers.
WellShaped(table) ==
    /\ "ss_tag_frequency" \in DOMAIN table
    /\ table["ss_tag_frequency"].t = "Object"
    /\ \A d \in DOMAIN table["ss_tag_frequency"].m :
          LET dir == table["ss_tag_frequency"].m[d]
          IN  /\ dir.t = "Object"
              /\ \A tag \in DOMAIN dir.m : dir.m[tag].t = "Number"

\* C6: for a validated buffer whose ss_tag_frequency is absent or is anything
\* but an object of objects of numbers, the build ends normally with
\* tag_frequencies empty and raw_metadata and base_model taken from the header.
C6_TagKeyNeverAborts ==
    (/\ rpc \in {"done", "panicked"}
     /\ Validated
     /\ ~WellShaped(MetadataOf(file.container)))
    => /\ rpc = "done"
       /\ record.data.tag_frequencies = <<>>
       /\ record.data.raw_metadata = MetadataOf(file.container)
       /\ record.data.base_model = BaseModelOf(MetadataOf(file.container))

\* C7: when deserialize fails for a buffer whose header metadata was read, the
\* record has an empty catalog and no model types, and raw_metadata, base_model
\* and tag_frequencies hold what the header gives.
C7_DeserializeFailureKeepsHeader ==
    (/\ rpc = "done"
     /\ header.kind = "ok"
     /\ file.container.header = "ok"
     /\ ~file.container.deserialize)
    => /\ record.data.tensors = <<>>
       /\ record.data.model_types = <<>>
       /\ record.data.raw_metadata = MetadataOf(file.container)
       /\ record.data.base_model = BaseModelOf(MetadataOf(file.container))
       /\ \E tf \in tag_frequencies(MetadataOf(file.container)) :
             record.data.tag_frequencies = AbsorbTags(tf)

\* The declared header length H of the file is below 256 and H + 8 <= L.
DeclaredFits ==
    /\ \A k \in 2..8 : file.bytes[k] = 0
    /\ file.bytes[1] + 8 <= Len(file.bytes)

\* C8: for a file of L bytes declaring header length H with H + 8 <= L (and
\* below the size bound), read_header returns a buffer of exactly L bytes that
\* agrees with the file on [0, H+8) and is zero on [H+8, L); if H + 8 > L it
\* returns an error and no buffer.
C8_BufferIsPaddedHeader ==
    HeaderWasRead =>
        IF DeclaredFits
        THEN /\ header.kind = "ok"
             /\ Len(header.buffer) = Len(file.bytes)
             /\ \A k \in 1..Len(file.bytes) :
                   header.buffer[k] = IF k <= file.bytes[1] + 8 THEN file.bytes[k]
                                      ELSE 0
        ELSE header.kind = "err" /\ header.buffer = <<>>

\* C8, witness: a file of 11 bytes declaring H = 2 has been read: its last
\* byte, 7 in the file, is 0 in the buffer.
C8_Witness ==
    /\ rpc = "read"
    /\ header.kind = "ok"
    /\ file.bytes[1] = 2
    /\ Len(file.bytes) = 11 /\ file.bytes[11] = 7
    /\ Len(header.buffer) = 11 /\ header.buffer[10] = 7 /\ header.buffer[11] = 0

\* H + 8 >= 100 * 2^20 for the file's length prefix, the overflow of H + 8
\* included, computed on the bytes of the prefix.
DeclaredTooLarge ==
    IF \E k \in 5..8 : file.bytes[k] # 0 THEN TRUE
    ELSE IF file.bytes[4] >= 7 THEN TRUE
    ELSE file.bytes[1] + 256 * file.bytes[2] + 65536 * file.bytes[3]
            + 16777216 * file.bytes[4] + 8 >= HeaderLimit

SizeErrors == {"HeaderTooLarge", "InvalidHeaderSize"}

\* C9: read_header fails at its size check for every length prefix H with
\* H + 8 >= 104857600, the bound itself and the overflow of H + 8 included, and
\* the size check rejects no file with H + 8 below the bound.
C9_SizeBound ==
    HeaderWasRead =>
        IF DeclaredTooLarge
        THEN header.kind = "err" /\ header.err \in SizeErrors
        ELSE header.err \notin SizeErrors

\* C9, witness: a file declaring H + 8 = 104857600 exactly has been rejected
\* by the size check.
C9_Witness ==
    /\ rpc = "read"
    /\ Len(file.bytes) >= 8
    /\ SubSeq(file.bytes, 1, 8) = LePrefix(HeaderLimit - 8)
    /\ header.err = "HeaderTooLarge"

\* The sum of the weights of tag over the groups `left` of dirs that hold it.
RECURSIVE WeightOver(_, _, _)
WeightOver(dirs, tag, left) ==
    IF left = {} THEN 0
    ELSE LET d == CHOOSE g \in left : TRUE
         IN  (IF tag \in DOMAIN dirs[d].m THEN dirs[d].m[tag].n ELSE 0)
                + WeightOver(dirs, tag, left \ {d})

\* C10: for a tag-frequency value that is an object of objects of numbers, the
\* result holds exactly one entry per tag occurring in any group, and the
\* weight of each entry is the sum of the tag's weights over all groups.
C10_WeightsAreSummed ==
    (rpc = "done" /\ Validated /\ WellShaped(MetadataOf(file.container))) =>
        LET dirs == MetadataOf(file.container)["ss_tag_frequency"].m
            tags == UNION {DOMAIN dirs[d].m : d \in DOMAIN dirs}
            tf == record.data.tag_frequencies
        IN  /\ Len(tf) = Cardinality(tags)
            /\ {tf[k][1] : k \in 1..Len(tf)} = tags
            /\ \A k \in 1..Len(tf) :
                  tf[k][2] = WeightOver(dirs, tf[k][1], DOMAIN dirs)

\* C10, witness: tag x with weight 1 in one group and 2 in another, and tag y
\* in one group only: the result holds x with 3 and y.
C10_Witness ==
    /\ rpc = "done"
    /\ Validated
    /\ WellShaped(MetadataOf(file.container))
    /\ record.data.tag_frequencies = <<<<"x", 3>>, <<"y", 1>>>>

\* C11: the tag_frequencies of every built record are in non-increasing order
\* of weight: each entry's weight is >= the weight of the entry after it.
C11_WeightsDescend ==
    rpc = "done" =>
        LET tf == record.data.tag_frequencies
        IN  \A k \in 1..(Len(tf) - 1) : tf[k][2] >= tf[k + 1][2]

\* C11, witness: a record built from groups where x sums to 1 and y to 3
\* lists y before x.
C11_Witness ==
    /\ rpc = "done"
    /\ Validated
    /\ record.data.tag_frequencies = <<<<"y", 3>>, <<"x", 1>>>>

\* The network targets of an adapter tag.
Networks == {"Unet", "SdClip", "SdxlClip", "Transformer"}

\* C12: in the model_types of every built record, for every network target T,
\* the DoRA tag for T excludes the LoRA tag for T and is itself kept; and the
\* LoRA tag of a target whose tensors give no DoRA tag is kept.
C12_DoraSupersedesLora ==
    (rpc = "done" /\ Validated) =>
        LET tensors == record.data.tensors
            found == {from_tensor_name(tensors[k][1]) : k \in 1..Len(tensors)}
            types == {record.data.model_types[k] :
                        k \in 1..Len(record.data.model_types)}
        IN  \A T \in Networks :
               /\ Lora("DoRA", T) \in types => Lora("LoRA", T) \notin types
               /\ Lora("DoRA", T) \in found => Lora("DoRA", T) \in types
               /\ (Lora("LoRA", T) \in found /\ Lora("DoRA", T) \notin found)
                     => Lora("LoRA", T) \in types

\* C12, witness: a record whose tensors give DoRA and LoRA for the UNet and
\* LoRA for the text encoder lists the text encoder's LoRA and the UNet's DoRA
\* only.
C12_Witness ==
    /\ rpc = "done"
    /\ Len(record.data.tensors) = 3
    /\ record.data.model_types = <<Lora("LoRA", "SdClip"), Lora("DoRA", "Unet")>>

\* The prefixes of checkpoint and VAE tensors, and of adapter tensors.
HasCheckpointPrefix(name) ==
    \E p \in {P_conditioner, P_cond_stage, P_encoder, P_first_stage} :
        starts_with(name, p)
HasAdapterPrefix(name) ==
    \E p \in {P_lora_te, P_lora_te1, P_transformer, P_lora_unet} :
        starts_with(name, p)
HasTechniqueSuffix(name) ==
    \E q \in {S_lora_down, S_lora_up, S_lora_A, S_lora_B, S_hada, S_lokr, S_dora} :
        ends_with(name, q)

\* C13: a record built from one tensor has at most one tag; a name with the
\* conditioner prefix gives the SDXL checkpoint tag whatever its suffix; a name
\* with a checkpoint or VAE prefix gives one tag that is no adapter tag; a name
\* with no known prefix, or with an adapter prefix and no technique suffix,
\* gives no tag.
C13_FirstRuleWins ==
    (rpc = "done" /\ Validated /\ Len(record.data.tensors) = 1) =>
        LET name == record.data.tensors[1][1]
            types == record.data.model_types
        IN  /\ Len(types) <= 1
            /\ starts_with(name, P_conditioner)
                  => types = <<Checkpoint("SdxlCheckpoint")>>
            /\ HasCheckpointPrefix(name)
                  => Len(types) = 1 /\ types[1].kind # "Lora"
            /\ (~HasCheckpointPrefix(name) /\ ~HasAdapterPrefix(name))
                  => types = <<>>
            /\ (HasAdapterPrefix(name) /\ ~HasTechniqueSuffix(name))
                  => types = <<>>

\* C13, witness: the one tensor has the conditioner prefix and a LoRA suffix,
\* and the record holds the SDXL checkpoint tag only.
C13_Witness ==
    /\ rpc = "done"
    /\ record.data.tensors = <<Tensor(P_conditioner \o Mid \o S_lora_down)>>
    /\ record.data.model_types = <<Checkpoint("SdxlCheckpoint")>>

\* The worker thread is scheduled: a step it can take is taken eventually. So
\* are the frames of the user interface, which the worker asks for with
\* request_repaint after every file.
WorkerStep == WorkerRecv \/ WorkerForce \/ WorkerPublish \/ WorkerTryRecv
UiStep == UiDialog \/ UiPopulate \/ UiPanel \/ UiCentral
SpecLive == Init /\ [][Next]_vars /\ WF_vars(WorkerStep) /\ WF_vars(UiStep)

\* The worker waits in recv() with nothing left to receive, every record of
\* its store, the last one submitted, is classified, and when the interface
\* shows that store the progress pair is (length, length).
Settled ==
    /\ wpc = "recv"
    /\ channel = <<>>
    /\ \A k \in 1..Len(store.paths) : lazy[store.id][k]
    /\ metadata = store =>
          loader_state = <<Len(store.paths), Len(store.paths)>>

\* C14: once no further batch is submitted, the worker eventually becomes idle
\* with every record of the last batch classified, and from then on the
\* progress pair is (n, n) for the length n of that batch, n = 0 included.
C14_ProgressSettles == <>[]Settled

\* C15: search_results is absent, or there is a store and search_results has
\* as many entries as it, so the side panel's search_results[index] never
\* fails.
C15_ResultsMatchStore ==
    /\ search_results # NoResults =>
          metadata # NoStore /\ Len(search_results) = Len(metadata.paths)
    /\ upc # "panicked"

\* C15, witness: the search for "b" over a store of two files has been
\* computed and the frame has gone on to the central panel.
C15_Witness ==
    /\ upc = "central"
    /\ Len(metadata.paths) = 2
    /\ search_text = "b"
    /\ search_results = <<"NoMatch", "Tag">>

====
